---- MODULE Spec2Model ----
(***************************************************************************)
(* Shor's algorithm notebook (src/shor_quantum_rings.ipynb): the           *)
(* reversible modular-arithmetic circuit builders, run on computational    *)
(* basis states, and the classical order-finding drivers.                  *)
(*                                                                         *)
(* A circuit is a record [num_qubits, data, err]: data is the sequence of  *)
(* instructions appended so far, err the exception the builder raised      *)
(* ("none" while it has raised nothing).  An instruction is an X gate or a *)
(* sub-circuit wrapped as a gate, with ctrl leading control qubits.        *)
(* Qubit indices are 0-based as in the source.                             *)
(***************************************************************************)
EXTENDS Integers, Sequences, FiniteSets, TLC

\* ------------------------------------------------------------ bounds
MaxN == 7
MaxCount == 2
MaxTrials == 2
MaxShots == 3
MaxBits == 3
MaxModulus == 15
MaxSampleBits == 4
MaxPolls == 2

\* ------------------------------------------------------- arithmetic
Pow2(k) == 2 ^ k

Bit(v, i) == (v \div Pow2(i)) % 2

RECURSIVE gcd(_, _)
gcd(u, v) == IF v = 0 THEN (IF u < 0 THEN -u ELSE u) ELSE gcd(v, u % v)

RECURSIVE pow(_, _, _)
pow(b, e, m) == IF e = 0 THEN 1 % m ELSE (b * pow(b, e - 1, m)) % m

\* ceil(log2(N)): the least k with 2^k >= N
RECURSIVE CeilLog2From(_, _)
CeilLog2From(N, k) == IF Pow2(k) >= N THEN k ELSE CeilLog2From(N, k + 1)

ceil_log2(N) == CeilLog2From(N, 0)

\* number of binary digits format(v, "b") prints for v >= 0
RECURSIVE BitLength(_)
BitLength(v) == IF v < 2 THEN 1 ELSE 1 + BitLength(v \div 2)

\* format(v, f"0{n_bits}b"): the digits, most significant first, zero-padded
\* to n_bits and longer when v does not fit; a negative v prints as a sign
\* (written -1 here) and the digits of -v, the sign counting towards the width
format_bin(v, n_bits) ==
    IF v >= 0
    THEN LET w == IF BitLength(v) > n_bits THEN BitLength(v) ELSE n_bits
         IN  [k \in 1..w |-> Bit(v, w - k)]
    ELSE LET w == IF BitLength(-v) > n_bits - 1 THEN BitLength(-v) ELSE n_bits - 1
         IN  <<-1>> \o [k \in 1..w |-> Bit(-v, w - k)]

reversed(s) == [k \in 1..Len(s) |-> s[Len(s) + 1 - k]]

\* --------------------------------------------------------- circuits
QuantumCircuit(k) == [num_qubits |-> k, data |-> <<>>, err |-> "none"]

XGate == [name |-> "x", num_qubits |-> 1, ctrl |-> 0, body |-> <<>>, qargs |-> <<>>]

\* mcx with k controls: controls first, target last
MCXGate(k) == [name |-> "x", num_qubits |-> k + 1, ctrl |-> k, body |-> <<>>, qargs |-> <<>>]

to_gate(circ) ==
    [name |-> "circuit", num_qubits |-> circ.num_qubits, ctrl |-> 0,
     body |-> circ.data, qargs |-> <<>>]

control(g, k) == [g EXCEPT !.num_qubits = @ + k, !.ctrl = @ + k]

\* QuantumCircuit.append: the instruction must get exactly as many distinct
\* qubits of the circuit as it acts on, else CircuitError
append(circ, g, qargs) ==
    IF circ.err # "none" THEN circ
    ELSE IF \/ Len(qargs) # g.num_qubits
            \/ \E k \in 1..Len(qargs) : qargs[k] \notin 0..(circ.num_qubits - 1)
            \/ \E j, k \in 1..Len(qargs) : j # k /\ qargs[j] = qargs[k]
         THEN [circ EXCEPT !.err = "CircuitError"]
         ELSE [circ EXCEPT !.data = Append(@, [g EXCEPT !.qargs = qargs])]

\* qc.x(register[i]): IndexError outside the register
x_on_register(circ, base, size, i) ==
    IF circ.err # "none" THEN circ
    ELSE IF i \notin 0..(size - 1) THEN [circ EXCEPT !.err = "IndexError"]
         ELSE append(circ, XGate, <<base + i>>)

Range(lo, len) == [k \in 1..len |-> lo + k - 1]

\* the inverse of an instruction sequence: reversed, each instruction inverted
RECURSIVE inverse_data(_)
\* an inverse that inverts each instruction but keeps their order
inverse_data_in_order(data) ==
    [k \in 1..Len(data) |->
        LET g == data[k]
        IN  IF g.name = "x" THEN g ELSE [g EXCEPT !.body = inverse_data(@)]]

inverse_data(data) ==
    [k \in 1..Len(data) |->
        LET g == data[Len(data) + 1 - k]
        IN  IF g.name = "x" THEN g ELSE [g EXCEPT !.body = inverse_data(@)]]

inverse(circ) == [circ EXCEPT !.data = inverse_data(@)]

\* ------------------------------------------------ running a circuit
\* on a basis state q : [0..k-1 -> {0,1}]
RECURSIVE Run(_, _)
ApplyInstr(g, q) ==
    LET ctrls   == SubSeq(g.qargs, 1, g.ctrl)
        targets == SubSeq(g.qargs, g.ctrl + 1, Len(g.qargs))
        fire    == \A k \in 1..Len(ctrls) : q[ctrls[k]] = 1
    IN  IF ~fire THEN q
        ELSE IF g.name = "x" THEN [q EXCEPT ![targets[1]] = 1 - @]
        ELSE LET m     == Len(targets)
                 local == [j \in 0..(m - 1) |-> q[targets[j + 1]]]
                 out   == Run(g.body, local)
             IN  [i \in DOMAIN q |->
                    IF \E j \in 1..m : targets[j] = i
                    THEN out[(CHOOSE j \in 1..m : targets[j] = i) - 1]
                    ELSE q[i]]

Run(data, q) ==
    IF Len(data) = 0 THEN q ELSE Run(Tail(data), ApplyInstr(Head(data), q))

\* the integer held by the qubits base .. base+size-1, least significant first
RECURSIVE RegValue(_, _, _)
RegValue(q, base, size) ==
    IF size = 0 THEN 0 ELSE q[base] + 2 * RegValue(q, base + 1, size - 1)

\* the basis state of k qubits holding v in the qubits base .. base+size-1
BasisState(k, base, size, v) ==
    [i \in 0..(k - 1) |->
        IF i \in base..(base + size - 1) THEN Bit(v, i - base) ELSE 0]

\* ------------------------------------------------- CDKM ripple-carry adder
\* CDKMRippleCarryAdder(n), kind "full": qubits cin, a[0..n-1], b[0..n-1], cout;
\* b <- a + b + cin, cout <- cout XOR carry.  num_qubits = 2n + 2.
adder_cin == 0

adder_a(i) == 1 + i

adder_b(n, i) == 1 + n + i

adder_cout(n) == 2 * n + 1

maj_gate ==
    to_gate(append(append(append(QuantumCircuit(3),
        MCXGate(1), <<0, 1>>), MCXGate(1), <<0, 2>>), MCXGate(2), <<2, 1, 0>>))

uma_gate ==
    to_gate(append(append(append(QuantumCircuit(3),
        MCXGate(2), <<2, 1, 0>>), MCXGate(1), <<0, 2>>), MCXGate(1), <<2, 1>>))

RECURSIVE maj_chain(_, _, _)
maj_chain(circ, n, i) ==
    IF i > n - 2 THEN circ
    ELSE maj_chain(append(circ, maj_gate,
                          <<adder_a(i + 1), adder_b(n, i + 1), adder_a(i)>>), n, i + 1)

RECURSIVE uma_chain(_, _, _)
uma_chain(circ, n, i) ==
    IF i < 0 THEN circ
    ELSE uma_chain(append(circ, uma_gate,
                          <<adder_a(i + 1), adder_b(n, i + 1), adder_a(i)>>), n, i - 1)

CDKMRippleCarryAdder(n) ==
    LET c0 == append(QuantumCircuit(2 * n + 2), maj_gate,
                     <<adder_a(0), adder_b(n, 0), adder_cin>>)
        c1 == maj_chain(c0, n, 0)
        c2 == append(c1, MCXGate(1), <<adder_a(n - 1), adder_cout(n)>>)
        c3 == uma_chain(c2, n, n - 2)
        c4 == append(c3, uma_gate, <<adder_a(0), adder_b(n, 0), adder_cin>>)
    IN  append(QuantumCircuit(2 * n + 2), to_gate(c4), Range(0, 2 * n + 2))

\* ------------------------------------------------------- the builders
\* for i, bit in enumerate(reversed(bits)): if bit == val: qc.x(register[i])
RECURSIVE load_register(_, _, _, _, _, _)
load_register(circ, base, size, bits, val, i) ==
    IF i >= Len(bits) THEN circ
    ELSE load_register(
            IF bits[i + 1] = val THEN x_on_register(circ, base, size, i) ELSE circ,
            base, size, bits, val, i + 1)

\* for i, bit in enumerate(reversed(bits)): if bit == '1': qc.x(i + offset)
RECURSIVE load_offset(_, _, _, _)
load_offset(circ, offset, bits, i) ==
    IF i >= Len(bits) THEN circ
    ELSE load_offset(
            IF bits[i + 1] = 1 THEN append(circ, XGate, <<i + offset>>) ELSE circ,
            offset, bits, i + 1)

quantum_modular_addition_clean(a, N, n_bits) ==
    LET adder           == CDKMRippleCarryAdder(n_bits)
        expected_qubits == adder.num_qubits
        qc0 == QuantumCircuit(expected_qubits)
        qc1 == load_offset(qc0, n_bits, reversed(format_bin(a, n_bits)), 0)
    IN  append(qc1, to_gate(adder), Range(0, expected_qubits))

\* the register layout of modular_add_const_mod_N: x, work, carry, flag
reducer_x == 0

reducer_anc(n_bits) == n_bits

reducer_carry(n_bits) == 2 * n_bits

reducer_flag(n_bits) == 2 * n_bits + 1

\* x[:] + anc[:] + carry[:], the qubits the adder is appended to
adder_qargs(n_bits) == Range(reducer_x, 2 * n_bits + 1)

\* [flag[0]] + x[:] + anc[:] + carry[:], the qubits of the controlled subtractor
subtractor_qargs(n_bits) == <<reducer_flag(n_bits)>> \o Range(reducer_x, 2 * n_bits + 1)

\* [x[i]] + list(res) + list(work) + [flag[0]], the qubits of the controlled
\* reducer gate in the multipliers
add_gate_qargs(n_bits, i) == <<i>> \o Range(n_bits, 2 * n_bits) \o <<3 * n_bits>>

\* prepare the constant in the work register and append the adder on (x, anc, carry)
reducer_add(qc, a, n_bits) ==
    LET adder == CDKMRippleCarryAdder(n_bits)
        qc1   == load_register(qc, reducer_anc(n_bits), n_bits,
                               reversed(format_bin(a, n_bits)), 1, 0)
    IN  append(qc1, to_gate(adder), adder_qargs(n_bits))

\* negate the bits of x where N has a 0, flip flag on all of x, undo the negation
reducer_compare(qc, N, n_bits) ==
    LET N_bin == reversed(format_bin(N, n_bits))
        qc1   == load_register(qc, reducer_x, n_bits, N_bin, 0, 0)
        qc2   == append(qc1, MCXGate(n_bits),
                        Range(reducer_x, n_bits) \o <<reducer_flag(n_bits)>>)
    IN  load_register(qc2, reducer_x, n_bits, N_bin, 0, 0)

\* flip the bits of N into the work register and append the inverse adder,
\* controlled on flag, on (flag, x, anc, carry)
reducer_subtract(qc, N, n_bits) ==
    LET subtractor == inverse(CDKMRippleCarryAdder(n_bits))
        qc1 == load_register(qc, reducer_anc(n_bits), n_bits,
                             reversed(format_bin(N, n_bits)), 1, 0)
    IN  append(qc1, control(to_gate(subtractor), 1), subtractor_qargs(n_bits))

modular_add_const_mod_N(a, N, n_bits) ==
    reducer_subtract(
        reducer_compare(
            reducer_add(QuantumCircuit(2 * n_bits + 2), a, n_bits), N, n_bits),
        N, n_bits)

\* for i in range(n_bits): add (a * 2^i) % N, controlled on x[i]
RECURSIVE shift_and_add(_, _, _, _, _)
shift_and_add(qc, a, N, n_bits, i) ==
    IF i >= n_bits \/ qc.err # "none" THEN qc
    ELSE LET a_shift == (a * pow(2, i, N)) % N
             add_circuit == modular_add_const_mod_N(a_shift, N, n_bits)
             add_gate == control(to_gate(add_circuit), 1)
             x    == 0
             res  == n_bits
             flag == 3 * n_bits
         IN  shift_and_add(
                IF a_shift = 0 THEN qc
                ELSE IF add_circuit.err # "none"
                     THEN [qc EXCEPT !.err = add_circuit.err]
                     ELSE append(qc, add_gate, add_gate_qargs(n_bits, i)),
                a, N, n_bits, i + 1)

controlled_multiply_const_mod_N(a, N, n_bits) ==
    shift_and_add(QuantumCircuit(3 * n_bits + 1), a, N, n_bits, 0)

multiply_const_mod_N(a, N, n_bits) ==
    shift_and_add(QuantumCircuit(3 * n_bits + 1), a, N, n_bits, 0)

RECURSIVE modexp_loop(_, _, _, _, _, _)
modexp_loop(qc, a, N, n_count, n_bits, i) ==
    IF i >= n_count \/ qc.err # "none" THEN qc
    ELSE LET exponent == Pow2(i)
             mult     == pow(a, exponent, N)
             mod_add  == quantum_modular_addition_clean(mult, N, n_bits)
             mod_gate == control(to_gate(mod_add), 1)
             work_qubits == 2 * n_bits + 2
         IN  modexp_loop(
                IF mod_add.err # "none" THEN [qc EXCEPT !.err = mod_add.err]
                ELSE append(qc, mod_gate, <<i>> \o Range(n_count, work_qubits)),
                a, N, n_count, n_bits, i + 1)

\* a ModExp circuit sized for an adder of 2 * n_bits + 1 qubits
controlled_modular_exponentiation_narrow(a, N, n_count) ==
    LET n_bits      == ceil_log2(N)
        work_qubits == 2 * n_bits + 1
        qc0 == QuantumCircuit(n_count + work_qubits)
        qc1 == append(qc0, XGate, <<n_count + 0>>)
    IN  modexp_loop(qc1, a, N, n_count, n_bits, 0)

controlled_modular_exponentiation(a, N, n_count) ==
    LET n_bits      == ceil_log2(N)
        adder       == CDKMRippleCarryAdder(n_bits)
        work_qubits == adder.num_qubits
        qc0 == QuantumCircuit(n_count + work_qubits)
        qc1 == append(qc0, XGate, <<n_count + 0>>)
    IN  modexp_loop(qc1, a, N, n_count, n_bits, 0)


\* ------------------------------------------- classical post-processing
\* Fraction(m / 2**n_count): the phase is a dyadic rational, exact as a float
Fraction(m, den) == [numerator |-> m \div gcd(m, den), denominator |-> den \div gcd(m, den)]

\* the continued-fraction loop of Fraction.limit_denominator
RECURSIVE cf_loop(_, _, _, _, _, _, _)
cf_loop(p0, q0, p1, q1, n, d, max_denominator) ==
    LET a  == n \div d
        q2 == q0 + a * q1
    IN  IF q2 > max_denominator
        THEN [p0 |-> p0, q0 |-> q0, p1 |-> p1, q1 |-> q1, d |-> d]
        ELSE cf_loop(p1, q1, p0 + a * p1, q2, d, n - a * d, max_denominator)

\* a limit_denominator that always answers with the last convergent
limit_denominator_convergent(f, max_denominator) ==
    IF f.denominator <= max_denominator THEN f
    ELSE LET c == cf_loop(0, 1, 1, 0, f.numerator, f.denominator, max_denominator)
         IN  [numerator |-> c.p1, denominator |-> c.q1]

limit_denominator(f, max_denominator) ==
    IF f.denominator <= max_denominator THEN f
    ELSE LET c == cf_loop(0, 1, 1, 0, f.numerator, f.denominator, max_denominator)
             k == (max_denominator - c.q0) \div c.q1
         IN  IF 2 * c.d * (c.q0 + k * c.q1) <= f.denominator
             THEN [numerator |-> c.p1, denominator |-> c.q1]
             ELSE [numerator |-> c.p0 + k * c.p1, denominator |-> c.q0 + k * c.q1]

\* a period candidate without the denominator bound
period_candidate_unbounded(measured, n_count, N) ==
    Fraction(measured, Pow2(n_count) * 2).denominator

\* phase = int(measured, 2) / 2**n_count; r = Fraction(phase).limit_denominator(N).denominator
period_candidate(measured, n_count, N) ==
    limit_denominator(Fraction(measured, Pow2(n_count)), N).denominator

\* return values: a 4-tuple (factor1, factor2, a, r) whose r is <<>> for None,
\* the value None, or the tuple (None, None, None, None); "pending" before return
ReturnValue(kind, factor1, factor2, a, r) ==
    [kind |-> kind, factor1 |-> factor1, factor2 |-> factor2, a |-> a, r |-> r]

Tuple4(factor1, factor2, a, r) == ReturnValue("tuple", factor1, factor2, a, r)

None == ReturnValue("None", 0, 0, 0, <<>>)

NoneTuple == ReturnValue("NoneTuple", 0, 0, 0, <<>>)

Pending == ReturnValue("pending", 0, 0, 0, <<>>)

\* a validation that tests factor1 alone
validate_factor1_only(a, r, N) ==
    IF r % 2 = 0 /\ pow(a, r \div 2, N) \notin {1, N - 1}
    THEN LET x       == pow(a, r \div 2, N)
             factor1 == gcd(x - 1, N)
             factor2 == gcd(x + 1, N)
         IN  IF factor1 \notin {1, N}
             THEN Tuple4(factor1, factor2, a, <<r>>)
             ELSE None
    ELSE None

\* the validation at the end of a trial: the returned tuple, or None when rejected
validate_and_factor(a, r, N) ==
    IF r % 2 = 0 /\ pow(a, r \div 2, N) \notin {1, N - 1}
    THEN LET x       == pow(a, r \div 2, N)
             factor1 == gcd(x - 1, N)
             factor2 == gcd(x + 1, N)
         IN  IF factor1 \notin {1, N} /\ factor2 \notin {1, N}
             THEN Tuple4(factor1, factor2, a, <<r>>)
             ELSE None
    ELSE None

\* a shortcut that returns N itself as the cofactor
classical_shortcut_no_division(a, N) ==
    LET factor == gcd(a, N) IN Tuple4(factor, N, a, <<>>)

\* the classical shortcut: gcd(a, N) != 1
classical_shortcut(a, N) ==
    LET factor == gcd(a, N) IN Tuple4(factor, N \div factor, a, <<>>)

\* result.get_counts(): how often each outcome occurs among the samples
get_counts(samples) ==
    [m \in {samples[k] : k \in 1..Len(samples)} |->
        Cardinality({k \in 1..Len(samples) : samples[k] = m})]

\* max(counts, key=counts.get): the keys max() may return; the first of them in
\* the mapping's iteration order, which the backend decides
max_keys(counts) ==
    {m \in DOMAIN counts : \A o \in DOMAIN counts : counts[o] <= counts[m]}

\* ------------------------------------------------------------- state
VARIABLES
    prog,       \* the function under execution
    pc,         \* its control position
    arg,        \* a circuit builder's arguments and basis input: [a, N, n, x]
    q,          \* the basis state of the circuit's qubits
    raised,     \* the exception raised, "none" while none
    call,       \* a driver's arguments: [N, n_count, max_trials, shots]
    trial,      \* the driver's loop index
    base,       \* the base a drawn in this trial
    job,        \* the status of this trial's remote job, "none" without one
    samples,    \* the outcomes the backend returned for this trial
    measured,   \* the outcome handed to period extraction, as an integer
    r,          \* the period candidate
    ret,        \* the value returned
    built,      \* circuits built in this trial
    sent,       \* circuits dispatched to the backend in this trial
    polls       \* status reads of the wait under way that found the job unfinished

vars == <<prog, pc, arg, q, raised, call, trial, base, job, samples, measured, r,
          ret, built, sent, polls>>

circuit_vars == <<arg, q>>

driver_vars == <<call, trial, base, job, samples, measured, r, ret, built, sent, polls>>

Builders == {"modular_add_const_mod_N", "controlled_multiply_const_mod_N",
             "multiply_const_mod_N", "controlled_modular_exponentiation"}

AerDrivers == {"run_shors_aer", "shors_algorithm"}

Drivers == AerDrivers \cup {"run_shors_with_random_a_qrings"}

TERMINAL == {"DONE", "ERROR", "CANCELLED"}

JobStatus == {"QUEUED", "RUNNING"} \cup TERMINAL

\* ----------------------------------------- circuits on basis states
\* build the circuit; when the builder raised, the exception surfaces and
\* nothing runs, otherwise the circuit runs on the basis state q
Execute(circ) ==
    IF circ.err = "none"
    THEN /\ q' = Run(circ.data, q)
         /\ raised' = "none"
         /\ pc' = "done"
    ELSE /\ q' = q
         /\ raised' = circ.err
         /\ pc' = "raised"

NoCall == [N |-> 0, n_count |-> 0, max_trials |-> 0, shots |-> 0]

NoDriver ==
    /\ call = NoCall
    /\ trial = 0 /\ base = 0 /\ job = "none" /\ samples = <<>>
    /\ measured = 0 /\ r = 0 /\ ret = Pending /\ built = 0 /\ sent = 0
    /\ polls = 0

\* ModularReducer on {x: n, work: n, carry: 1, flag: 1}, x holding the input
InitReducer ==
    \E n_bits \in 1..MaxBits :
    \E N \in 2..(Pow2(n_bits) - 1) :
    \E a \in 0..(N - 1), x \in 0..(N - 1) :
        /\ prog = "modular_add_const_mod_N"
        /\ arg = [a |-> a, N |-> N, n |-> n_bits, x |-> x]
        /\ q = BasisState(2 * n_bits + 2, 0, n_bits, x)

\* multipliers on {x: n, res: n, work: n, flag: 1}, x holding the input
InitMultiplier ==
    \E n_bits \in 1..MaxBits :
    \E N \in 2..(Pow2(n_bits) - 1) :
    \E a \in 0..N, x \in 0..(N - 1) :
        /\ prog \in {"controlled_multiply_const_mod_N", "multiply_const_mod_N"}
        /\ arg = [a |-> a, N |-> N, n |-> n_bits, x |-> x]
        /\ q = BasisState(3 * n_bits + 1, 0, n_bits, x)

\* ModExp on {count: n_count, work: 2*n_bits+2}, count holding the input
InitModExp ==
    \E N \in 2..MaxN, n_count \in 1..MaxCount :
    \E a \in {b \in 1..(N - 1) : gcd(b, N) = 1}, x \in 0..(Pow2(n_count) - 1) :
        /\ prog = "controlled_modular_exponentiation"
        /\ arg = [a |-> a, N |-> N, n |-> n_count, x |-> x]
        /\ q = BasisState(n_count + 2 * ceil_log2(N) + 2, 0, n_count, x)

\* the adder gate alone, on any basis state v of its 2 * n_bits + 2 qubits; a is
\* the constant the state holds in the adder's first operand register
InitAdder ==
    \E n_bits \in 1..MaxBits :
    \E v \in 0..(Pow2(2 * n_bits + 2) - 1) :
        /\ prog = "CDKMRippleCarryAdder"
        /\ q = BasisState(2 * n_bits + 2, 0, 2 * n_bits + 2, v)
        /\ arg = [a |-> RegValue(q, adder_a(0), n_bits), N |-> 0, n |-> n_bits, x |-> v]

\* the comparison step of modular_add_const_mod_N alone, on the reducer's
\* qubits, x holding any value v the addition can leave there
InitCompare ==
    \E n_bits \in 1..MaxBits :
    \E N \in 2..(Pow2(n_bits) - 1) :
    \E v \in 0..(Pow2(n_bits) - 1) :
        /\ prog = "reducer_compare"
        /\ arg = [a |-> 0, N |-> N, n |-> n_bits, x |-> v]
        /\ q = BasisState(2 * n_bits + 2, reducer_x, n_bits, v)

\* the constant-loading loops alone, on the zeroed qubits of their circuit, for
\* any integer a from -2^n_bits to 2^(n_bits+1) - 1
InitLoad ==
    \E n_bits \in 1..MaxBits :
    \E a \in (0 - Pow2(n_bits))..(Pow2(n_bits + 1) - 1) :
        /\ prog \in {"load_offset", "load_register"}
        /\ arg = [a |-> a, N |-> 0, n |-> n_bits, x |-> 0]
        /\ q = BasisState(2 * n_bits + 2, 0, n_bits, 0)

\* a driver called with (N, n_count, max_trials, shots); shors_algorithm runs one
\* shot, the Quantum Rings driver the module's global shots
InitDriver ==
    \E N \in 1..MaxModulus, n_count \in 1..MaxSampleBits, max_trials \in 0..MaxTrials,
       shots \in 1..MaxShots :
        /\ n_count * shots <= MaxSampleBits
        /\ prog \in Drivers
        /\ prog = "shors_algorithm" => shots = 1
        /\ call = [N |-> N, n_count |-> n_count, max_trials |-> max_trials,
                   shots |-> shots]
        /\ trial = 0 /\ base = 0 /\ job = "none" /\ samples = <<>>
        /\ measured = 0 /\ r = 0 /\ ret = Pending /\ built = 0 /\ sent = 0
        /\ polls = 0

Init ==
    /\ raised = "none"
    /\ \/ /\ pc = "start"
          /\ NoDriver
          /\ \/ InitReducer
             \/ InitMultiplier
             \/ InitModExp
             \/ InitAdder
             \/ InitCompare
             \/ InitLoad
       \/ /\ pc = "loop"
          /\ arg = [a |-> 0, N |-> 0, n |-> 0, x |-> 0]
          /\ q = <<>>
          /\ InitDriver

Do_modular_add_const_mod_N ==
    /\ pc = "start" /\ prog = "modular_add_const_mod_N"
    /\ Execute(modular_add_const_mod_N(arg.a, arg.N, arg.n))
    /\ UNCHANGED <<prog, arg>>
    /\ UNCHANGED driver_vars

Do_controlled_multiply_const_mod_N ==
    /\ pc = "start" /\ prog = "controlled_multiply_const_mod_N"
    /\ Execute(controlled_multiply_const_mod_N(arg.a, arg.N, arg.n))
    /\ UNCHANGED <<prog, arg>>
    /\ UNCHANGED driver_vars

Do_multiply_const_mod_N ==
    /\ pc = "start" /\ prog = "multiply_const_mod_N"
    /\ Execute(multiply_const_mod_N(arg.a, arg.N, arg.n))
    /\ UNCHANGED <<prog, arg>>
    /\ UNCHANGED driver_vars

Do_controlled_modular_exponentiation ==
    /\ pc = "start" /\ prog = "controlled_modular_exponentiation"
    /\ Execute(controlled_modular_exponentiation(arg.a, arg.N, arg.n))
    /\ UNCHANGED <<prog, arg>>
    /\ UNCHANGED driver_vars

\* the negate, mcx, negate instructions of modular_add_const_mod_N
Do_reducer_compare ==
    /\ pc = "start" /\ prog = "reducer_compare"
    /\ Execute(reducer_compare(QuantumCircuit(2 * arg.n + 2), arg.N, arg.n))
    /\ UNCHANGED <<prog, arg>>
    /\ UNCHANGED driver_vars

\* the loop of quantum_modular_addition_clean that loads a at offset n_bits
Do_load_offset ==
    /\ pc = "start" /\ prog = "load_offset"
    /\ Execute(load_offset(QuantumCircuit(2 * arg.n + 2), arg.n,
                           reversed(format_bin(arg.a, arg.n)), 0))
    /\ UNCHANGED <<prog, arg>>
    /\ UNCHANGED driver_vars

\* the loop of modular_add_const_mod_N that loads a into the work register
Do_load_register ==
    /\ pc = "start" /\ prog = "load_register"
    /\ Execute(load_register(QuantumCircuit(2 * arg.n + 2), reducer_anc(arg.n), arg.n,
                             reversed(format_bin(arg.a, arg.n)), 1, 0))
    /\ UNCHANGED <<prog, arg>>
    /\ UNCHANGED driver_vars

\* adder = CDKMRippleCarryAdder(n_bits), appended as a gate to its qubits
Do_adder ==
    /\ pc = "start" /\ prog = "CDKMRippleCarryAdder"
    /\ LET adder == CDKMRippleCarryAdder(arg.n)
           qc    == append(QuantumCircuit(adder.num_qubits), to_gate(adder),
                           Range(0, adder.num_qubits))
       IN  /\ q' = Run(qc.data, q)
           /\ raised' = qc.err
           /\ pc' = IF qc.err = "none" THEN "added" ELSE "raised"
    /\ UNCHANGED <<prog, arg>>
    /\ UNCHANGED driver_vars

\* subtractor = CDKMRippleCarryAdder(n_bits).inverse(), appended after the adder
Do_subtractor ==
    /\ pc = "added" /\ prog = "CDKMRippleCarryAdder"
    /\ LET subtractor == inverse(CDKMRippleCarryAdder(arg.n))
           qc         == append(QuantumCircuit(subtractor.num_qubits),
                                to_gate(subtractor), Range(0, subtractor.num_qubits))
       IN  /\ q' = Run(qc.data, q)
           /\ raised' = qc.err
           /\ pc' = IF qc.err = "none" THEN "done" ELSE "raised"
    /\ UNCHANGED <<prog, arg>>
    /\ UNCHANGED driver_vars

\* ------------------------------------------------------- the drivers
\* an off-by-one loop bound
in_range_inclusive(i, max_trials) == i <= max_trials

\* for trial in range(max_trials): whether the loop body runs once more
in_range(i, max_trials) == i < max_trials

\* if gcd(a, N) != 1
shares_factor(a, N) == gcd(a, N) # 1

\* for trial in range(max_trials): a = random.randint(2, N - 1), which raises
\* ValueError on an empty range; gcd(a, N) != 1 returns the classical factors
ChooseBase ==
    /\ pc = "loop" /\ prog \in Drivers
    /\ in_range(trial, call.max_trials)
    /\ call.N - 1 >= 2
    /\ \E a \in 2..(call.N - 1) :
        /\ base' = a
        /\ IF shares_factor(a, call.N)
           THEN /\ ret' = classical_shortcut(a, call.N)
                /\ pc' = "returned"
           ELSE /\ ret' = ret
                /\ pc' = "estimate"
    /\ built' = 0 /\ sent' = 0
    /\ UNCHANGED <<prog, raised, call, trial, job, samples, measured, r>>
    /\ UNCHANGED polls
    /\ UNCHANGED circuit_vars

EmptyRange ==
    /\ pc = "loop" /\ prog \in Drivers
    /\ in_range(trial, call.max_trials)
    /\ call.N - 1 < 2
    /\ raised' = "ValueError"
    /\ pc' = "raised"
    /\ UNCHANGED <<prog, call, trial, base, job, samples, measured, r, ret, built, sent>>
    /\ UNCHANGED polls
    /\ UNCHANGED circuit_vars

\* the loop ran out: run_shors_aer and the Quantum Rings driver return None,
\* shors_algorithm returns (None, None, None, None)
Exhausted ==
    /\ pc = "loop" /\ prog \in Drivers
    /\ ~in_range(trial, call.max_trials)
    /\ ret' = IF prog = "shors_algorithm" THEN NoneTuple ELSE None
    /\ pc' = "returned"
    /\ UNCHANGED <<prog, raised, call, trial, base, job, samples, measured, r, built, sent>>
    /\ UNCHANGED polls
    /\ UNCHANGED circuit_vars

\* build_shors_qc / build_shors_qc_sampler_ready: the ModExp gate, n_count plus
\* the adder's qubits wide, is appended to the count and work qubits.  The
\* drivers use the gate's width only; its instructions are those of
\* controlled_modular_exponentiation
ModExpGate(N, n_count) ==
    LET n_bits      == ceil_log2(N)
        work_qubits == 2 * n_bits + 2
    IN  [name |-> "ModExp", num_qubits |-> n_count + work_qubits, ctrl |-> 0,
         body |-> <<>>, qargs |-> <<>>]

build_shors_qc(N, a, n_count) ==
    LET n_bits      == ceil_log2(N)
        work_qubits == 2 * n_bits + 2
        qc          == QuantumCircuit(n_count + work_qubits)
    IN  append(qc, ModExpGate(N, n_count), Range(0, n_count) \o Range(n_count, work_qubits))

\* build_shors_qc_sampler_ready: the same assembly on one register of
\* n_count + work_qubits qubits, behind the assertion on the gate's size
build_shors_qc_sampler_ready(N, a, n_count) ==
    LET n_bits      == ceil_log2(N)
        work_qubits == 2 * n_bits + 2
        qr          == n_count + work_qubits
        qc          == QuantumCircuit(qr)
        modexp_gate == ModExpGate(N, n_count)
    IN  IF modexp_gate.num_qubits # qr
        THEN [qc EXCEPT !.err = "AssertionError"]
        ELSE append(qc, modexp_gate, Range(0, n_count) \o Range(n_count, qr - n_count))

AllSamples(n_count, shots) == [1..shots -> 0..(Pow2(n_count) - 1)]

\* run_shors_single / shors_algorithm: build, run on AerSimulator with memory=True,
\* take result.get_memory()[0]
AerEstimate ==
    /\ pc = "estimate" /\ prog \in AerDrivers
    /\ LET qc == build_shors_qc(call.N, base, call.n_count)
       IN  /\ built' = built + 1
           /\ IF qc.err # "none"
              THEN /\ raised' = qc.err /\ pc' = "raised"
                   /\ UNCHANGED <<sent, samples, measured>>
              ELSE /\ sent' = sent + 1
                   /\ \E memory \in AllSamples(call.n_count, call.shots) :
                        /\ samples' = memory
                        /\ measured' = memory[1]
                   /\ raised' = raised /\ pc' = "extract"
    /\ UNCHANGED <<prog, call, trial, base, job, r, ret>>
    /\ UNCHANGED polls
    /\ UNCHANGED circuit_vars

\* run_shors_on_quantum_rings_qrings up to backend.run: build and submit
QringsSubmit ==
    /\ pc = "estimate" /\ prog = "run_shors_with_random_a_qrings"
    /\ LET qc == build_shors_qc_sampler_ready(call.N, base, call.n_count)
       IN  /\ built' = built + 1
           /\ IF qc.err # "none"
              THEN /\ raised' = qc.err /\ pc' = "raised"
                   /\ UNCHANGED <<sent, job>>
              ELSE /\ sent' = sent + 1
                   /\ job' = "QUEUED"
                   /\ raised' = raised /\ pc' = "poll"
    /\ UNCHANGED <<prog, call, trial, base, samples, measured, r, ret>>
    /\ polls' = 0
    /\ UNCHANGED circuit_vars

\* the remote job moves on by itself; a terminal status stays
JobAdvance ==
    /\ pc = "poll" /\ job \in {"QUEUED", "RUNNING"}
    /\ job' \in (JobStatus \ {"QUEUED", job})
    /\ UNCHANGED <<prog, pc, raised, call, trial, base, samples, measured, r, ret,
                   built, sent>>
    /\ UNCHANGED polls
    /\ UNCHANGED circuit_vars

\* while True: status = job.status(); break on a terminal status, else sleep
\* and read the status again.  Nothing else ends the loop.
Poll ==
    /\ pc = "poll"
    /\ IF job \in TERMINAL
       THEN /\ pc' = "result"
            /\ polls' = 0
       ELSE /\ polls < MaxPolls
            /\ pc' = "poll"
            /\ polls' = polls + 1
    /\ UNCHANGED <<prog, raised, call, trial, base, job, samples, measured, r, ret,
                   built, sent>>
    /\ UNCHANGED circuit_vars

\* what max(counts, key=counts.get) does: ValueError on an empty mapping
take_max(outcomes) ==
    /\ sent' = sent
    /\ samples' = outcomes
    /\ IF Len(outcomes) = 0
       THEN /\ raised' = "ValueError" /\ pc' = "raised" /\ measured' = measured
       ELSE /\ measured' \in max_keys(get_counts(outcomes))
            /\ raised' = raised /\ pc' = "extract"

\* result = job.result(); counts normalised; measured_bitstring = max(counts, ...).
\* The result of a job that is not DONE is the library's choice: it raises, or
\* hands back whatever counts it has
QringsResult ==
    /\ pc = "result"
    /\ \/ /\ job = "DONE"
          /\ \E outcomes \in AllSamples(call.n_count, call.shots) : take_max(outcomes)
       \/ /\ job # "DONE"
          /\ \/ /\ raised' = "JobError" /\ pc' = "raised"
                /\ UNCHANGED <<sent, samples, measured>>
             \/ \E k \in 0..call.shots :
                \E outcomes \in AllSamples(call.n_count, k) : take_max(outcomes)
    /\ UNCHANGED <<prog, call, trial, base, job, r, ret, built>>
    /\ UNCHANGED polls
    /\ UNCHANGED circuit_vars

ExtractPeriod ==
    /\ pc = "extract"
    /\ r' = period_candidate(measured, call.n_count, call.N)
    /\ pc' = "validate"
    /\ UNCHANGED <<prog, raised, call, trial, base, job, samples, measured, ret,
                   built, sent>>
    /\ UNCHANGED polls
    /\ UNCHANGED circuit_vars

\* accepted: the tuple is returned; rejected: the next trial starts
ValidateAndFactor ==
    /\ pc = "validate"
    /\ LET result == validate_and_factor(base, r, call.N)
       IN  IF result # None
           THEN /\ ret' = result
                /\ pc' = "returned"
                /\ UNCHANGED <<trial, base, job, samples, measured, r, built, sent>>
           ELSE /\ trial' = trial + 1
                /\ pc' = "loop"
                /\ base' = 0 /\ job' = "none" /\ samples' = <<>> /\ measured' = 0
                /\ r' = 0 /\ built' = 0 /\ sent' = 0
                /\ ret' = ret
    /\ UNCHANGED <<prog, raised, call>>
    /\ polls' = 0
    /\ UNCHANGED circuit_vars

\* the cell that calls run_shors_aer unpacks the returned value into four names
\* (TypeError when it is None), then prints the factors or the failure
call_run_shors_aer ==
    /\ pc = "returned" /\ prog = "run_shors_aer"
    /\ IF ret = None
       THEN raised' = "TypeError" /\ pc' = "raised"
       ELSE raised' = raised /\ pc' = "reported"
    /\ UNCHANGED <<prog, call, trial, base, job, samples, measured, r, ret, built,
                   sent, polls>>
    /\ UNCHANGED circuit_vars

\* the cell that calls the Quantum Rings driver tests the returned value first
\* and unpacks it only when it is not None
call_run_shors_with_random_a_qrings ==
    /\ pc = "returned" /\ prog = "run_shors_with_random_a_qrings"
    /\ pc' = "reported"
    /\ UNCHANGED <<prog, raised, call, trial, base, job, samples, measured, r, ret,
                   built, sent, polls>>
    /\ UNCHANGED circuit_vars

DriverStep ==
    \/ ChooseBase
    \/ EmptyRange
    \/ Exhausted
    \/ AerEstimate
    \/ QringsSubmit
    \/ JobAdvance
    \/ Poll
    \/ QringsResult
    \/ ExtractPeriod
    \/ ValidateAndFactor
    \/ call_run_shors_aer
    \/ call_run_shors_with_random_a_qrings

Next ==
    \/ Do_modular_add_const_mod_N
    \/ Do_controlled_multiply_const_mod_N
    \/ Do_multiply_const_mod_N
    \/ Do_controlled_modular_exponentiation
    \/ Do_adder
    \/ Do_subtractor
    \/ Do_reducer_compare
    \/ Do_load_offset
    \/ Do_load_register
    \/ DriverStep

Spec == Init /\ [][Next]_vars

\* ============================================================ claims
Multipliers == {"controlled_multiply_const_mod_N", "multiply_const_mod_N"}

Finished == pc \in {"done", "raised"}

\* C1: once modular_add_const_mod_N(a, N, n_bits) has been built and run on the
\* basis input x < N (work, carry, flag 0), the x register holds (x + a) mod N.
C1_ReducerAddsModN ==
    (prog = "modular_add_const_mod_N" /\ Finished)
        => /\ raised = "none"
           /\ RegValue(q, reducer_x, arg.n) = (arg.x + arg.a) % arg.N

\* the value of the whole work register of the ModExp gate, and of its
\* n_bits-wide windows
modexp_work(n_count, N) == RegValue(q, n_count, 2 * ceil_log2(N) + 2)

\* C2: once the ModExp gate has run on the counting value x, the work register,
\* initialised to 1, holds a^x mod N.
C2_ModExpComputesPower ==
    (prog = "controlled_modular_exponentiation" /\ Finished)
        => /\ raised = "none"
           /\ modexp_work(arg.n, arg.N) = pow(arg.a, arg.x, arg.N)

\* C3: once the multiplier has run on the basis input x < N (result, work, flag
\* 0) with its control set, the result register holds (a * x) mod N.
C3_MultiplierComputesProduct ==
    (prog \in Multipliers /\ Finished)
        => /\ raised = "none"
           /\ RegValue(q, arg.n, arg.n) = (arg.a * arg.x) % arg.N

\* C4: when the ModularReducer block or the multiplier block completes on a basis
\* input with work, carry and flag at 0, the block has run and each of those
\* qubits is back at 0.
C4_AncillasUncomputed ==
    /\ (prog = "modular_add_const_mod_N" /\ Finished)
          => /\ raised = "none"
             /\ \A i \in reducer_anc(arg.n)..reducer_flag(arg.n) : q[i] = 0
    /\ (prog \in Multipliers /\ Finished)
          => /\ raised = "none"
             /\ \A i \in (2 * arg.n)..(3 * arg.n) : q[i] = 0

\* ---------------------------------------------------------- drivers
Returned == pc \in {"returned", "reported"}

IsExhausted == Returned /\ ret.kind \in {"None", "NoneTuple"}

IsSuccess == Returned /\ ret.kind = "tuple"

\* how far a driver is from its end: the trials left, then the steps left in
\* the trial
Stage ==
    CASE pc = "loop" -> 9
      [] pc = "estimate" -> 8
      [] pc = "poll" -> (IF job = "QUEUED" THEN 7 ELSE IF job = "RUNNING" THEN 6 ELSE 5)
      [] pc = "result" -> 4
      [] pc = "extract" -> 3
      [] pc = "validate" -> 2
      [] pc = "returned" -> 1
      [] OTHER -> 0

Rank == (call.max_trials - trial) * 10 + Stage

Accepts(a, rr, N) ==
    /\ rr % 2 = 0
    /\ pow(a, rr \div 2, N) # 1
    /\ pow(a, rr \div 2, N) # N - 1
    /\ gcd(pow(a, rr \div 2, N) - 1, N) \notin {1, N}
    /\ gcd(pow(a, rr \div 2, N) + 1, N) \notin {1, N}

\* C6: a trial with base a and candidate r returns (f1, f2, a, r), with
\* f1 = gcd(a^(r/2) - 1, N) and f2 = gcd(a^(r/2) + 1, N), exactly when r is even,
\* a^(r/2) mod N is neither 1 nor N-1 and both f1 and f2 are outside {1, N};
\* otherwise nothing is returned and the next trial starts.
C6_SuccessIffValid ==
    [][pc = "validate" =>
        IF Accepts(base, r, call.N)
        THEN /\ pc' = "returned"
             /\ ret' = Tuple4(gcd(pow(base, r \div 2, call.N) - 1, call.N),
                              gcd(pow(base, r \div 2, call.N) + 1, call.N),
                              base, <<r>>)
        ELSE /\ pc' = "loop"
             /\ trial' = trial + 1
             /\ ret' = Pending]_vars

C6_Witness ==
    /\ IsSuccess
    /\ ret.r = <<r>>
    /\ Accepts(ret.a, r, call.N)
    /\ trial >= 1

\* C7: a trial whose drawn base shares a factor with N has returned
\* (gcd(a, N), N / gcd(a, N), a, None) at once, with no circuit built and nothing
\* dispatched in that trial.
C7_ClassicalShortcut ==
    (prog \in Drivers /\ base >= 2 /\ gcd(base, call.N) # 1)
        => /\ IsSuccess
           /\ ret = Tuple4(gcd(base, call.N), call.N \div gcd(base, call.N), base, <<>>)
           /\ ret.factor1 * ret.factor2 = call.N
           /\ built = 0 /\ sent = 0
           /\ job = "none" /\ samples = <<>>

C7_Witness ==
    /\ IsSuccess
    /\ ret.r = <<>>
    /\ ret.factor1 \notin {1, call.N}
    /\ trial >= 1

\* the multiplicative order of a modulo N, for a coprime to N
RECURSIVE OrderFrom(_, _, _)
OrderFrom(a, N, k) == IF pow(a, k, N) = 1 % N THEN k ELSE OrderFrom(a, N, k + 1)

Order(a, N) == OrderFrom(a, N, 1)

\* the outcomes of the ideal phase-estimation distribution for order rr that are
\* exact: m / 2^n_count = s / rr for an integer s
IdealOutcome(m, rr, n_count) == (m * rr) % Pow2(n_count) = 0

NumeratorOf(m, rr, n_count) == (m * rr) \div Pow2(n_count)

GoodBase(a, N) ==
    /\ Order(a, N) % 2 = 0
    /\ pow(a, Order(a, N) \div 2, N) # N - 1

\* C8: fed any outcome of the ideal distribution for the order rr of a
\* (rr even, a^(rr/2) mod N # N-1), the trial returns Success with period rr; for
\* N = 15, a = 7, n_count = 4 the factors are 3 and 5.
C8_IdealOutcomeSucceeds ==
    [][(pc = "validate" /\ GoodBase(base, call.N)
            /\ IdealOutcome(measured, Order(base, call.N), call.n_count))
        => /\ pc' = "returned"
           /\ ret'.kind = "tuple"
           /\ ret'.r = <<Order(base, call.N)>>
           /\ (call.N = 15 /\ base = 7) => {ret'.factor1, ret'.factor2} = {3, 5}]_vars

\* C8, for the outcomes in lowest terms only: the same for the outcomes m / 2^n_count = s / rr with s coprime to
\* rr (for N = 15, a = 7, n_count = 4: the outcomes 4 and 12); the outcomes 0 and
\* 8 of that distribution give the candidates 1 and 2 and the trial is rejected.
C8_CoprimeOutcomeSucceeds ==
    [][(pc = "validate" /\ GoodBase(base, call.N)
            /\ IdealOutcome(measured, Order(base, call.N), call.n_count))
        => IF gcd(NumeratorOf(measured, Order(base, call.N), call.n_count),
                  Order(base, call.N)) = 1
           THEN /\ pc' = "returned"
                /\ ret'.kind = "tuple"
                /\ ret'.a = base
                /\ ret'.r = <<Order(base, call.N)>>
                /\ (call.N = 15 /\ base = 7) => {ret'.factor1, ret'.factor2} = {3, 5}
           ELSE (call.N = 15 /\ base = 7 /\ call.n_count = 4)
                    => /\ measured \in {0, 8}
                       /\ r = IF measured = 0 THEN 1 ELSE 2
                       /\ pc' = "loop"]_vars

C8_Witness ==
    /\ IsSuccess
    /\ call.N = 15 /\ call.n_count = 4
    /\ ret.a = 7 /\ ret.r = <<4>>
    /\ measured = 12
    /\ {ret.factor1, ret.factor2} = {3, 5}

\* C9: once the job of a trial is seen Cancelled, the driver returns a Cancelled
\* outcome: it neither reads a period from that job nor raises.
C9_CancelledIsReturned ==
    [][(pc = "result" /\ job = "CANCELLED")
        => /\ pc' = "returned"
           /\ ret'.kind = "Cancelled"]_vars

\* C10: once the job of a trial is seen in Error, that trial counts as failed and
\* the driver is back at the loop for the next trial, nothing raised.
C10_ErrorFailsTrial ==
    [][(pc = "result" /\ job = "ERROR")
        => /\ pc' = "loop"
           /\ trial' = trial + 1
           /\ raised' = "none"]_vars

\* C11: waiting on a remote job is bounded: the status reads that find the job
\* of a trial without terminal status stay below a bound (any bound short of
\* MaxPolls, the longest wait followed here), and the step that ends the wait on
\* such a job returns a Timeout outcome.
C11_WaitEndsInTimeout ==
    /\ []((pc = "poll" /\ job \notin TERMINAL) => polls < MaxPolls)
    /\ [][(pc = "poll" /\ job \notin TERMINAL /\ job' = job /\ pc' # "poll")
            => /\ pc' = "returned"
               /\ ret'.kind = "Timeout"]_vars

IsPrime(N) == N >= 2 /\ \A d \in 2..(N - 1) : N % d # 0

\* C12: called with N < 2 or N prime, a driver does nothing but report the
\* invalid input (as InvalidInput, or as Python's ValueError): it draws no base,
\* builds no circuit, dispatches nothing and runs no trial.
C12_InvalidInputReported ==
    (prog \in Drivers /\ (call.N < 2 \/ IsPrime(call.N)))
        => \/ pc = "loop" /\ trial = 0
           \/ /\ pc = "raised"
              /\ raised \in {"InvalidInput", "ValueError"}
              /\ trial = 0 /\ base = 0 /\ built = 0 /\ sent = 0

\* C13: for N >= 2 and n_count >= 1 the ModExp gate is built without error and
\* acts on n_count + work_qubits qubits, work_qubits being the qubits of the
\* n_bits adder, n_bits = ceil(log2(N)); build_shors_qc and
\* build_shors_qc_sampler_ready place it into a circuit of as many qubits, so
\* neither the append nor the size assertion fails, in any driver either.
C13_ModExpGateFitsCircuit ==
    /\ (prog = "controlled_modular_exponentiation" /\ Finished)
          => LET modexp_gate ==
                    to_gate(controlled_modular_exponentiation(arg.a, arg.N, arg.n))
                 adder == CDKMRippleCarryAdder(ceil_log2(arg.N))
                 qc1 == build_shors_qc(arg.N, arg.a, arg.n)
                 qc2 == build_shors_qc_sampler_ready(arg.N, arg.a, arg.n)
             IN  /\ raised = "none"
                 /\ modexp_gate.num_qubits = arg.n + adder.num_qubits
                 /\ modexp_gate.num_qubits = ModExpGate(arg.N, arg.n).num_qubits
                 /\ qc1.err = "none" /\ qc1.num_qubits = modexp_gate.num_qubits
                 /\ qc2.err = "none" /\ qc2.num_qubits = modexp_gate.num_qubits
                 /\ Len(qc1.data) = 1 /\ Len(qc1.data[1].qargs) = modexp_gate.num_qubits
                 /\ Len(qc2.data) = 1 /\ Len(qc2.data[1].qargs) = modexp_gate.num_qubits
    /\ (prog \in Drivers) => raised \notin {"CircuitError", "AssertionError"}

C13_Witness ==
    /\ prog = "controlled_modular_exponentiation" /\ pc = "done"
    /\ arg.N = 5 /\ arg.n = 2 /\ arg.x = 3
    /\ DOMAIN q = 0..9
    /\ raised = "none"

C15_FlagIffAtLeastN ==
    (prog = "reducer_compare" /\ Finished)
        => /\ raised = "none"
           /\ (q[reducer_flag(arg.n)] = 1) <=> (arg.x >= arg.N)

Abs(v) == IF v < 0 THEN -v ELSE v

\* pp / qq is as near to m / den as any fraction with a denominator in 1..bound
BestApproximation(pp, qq, m, den, bound) ==
    \A d \in 1..bound : \A n \in 0..d :
        Abs(m * qq - pp * den) * d <= Abs(m * d - n * den) * qq

\* C16: the period candidate r of an n_count-bit outcome m is the denominator of
\* a best rational approximation of m / 2^n_count with denominator <= N: r is
\* in 1..N, and when m / 2^n_count in lowest terms has a denominator <= N, r is
\* that denominator (m = 4, n_count = 4, N = 15: r = 4).
C16_PeriodIsBestDenominator ==
    (prog \in Drivers /\ pc = "validate")
        => LET den    == Pow2(call.n_count)
               lowest == den \div gcd(measured, den)
           IN  /\ r \in 1..call.N
               /\ lowest <= call.N => r = lowest
               /\ \E pp \in 0..r : BestApproximation(pp, r, measured, den, call.N)
               /\ (measured = 4 /\ call.n_count = 4 /\ call.N = 15) => r = 4

\* 5/16 with denominators up to 4: the candidate is 3 (1/3), not the 16 of the
\* fraction itself
C16_Witness ==
    /\ prog \in Drivers /\ pc = "validate"
    /\ measured = 5 /\ call.n_count = 4 /\ call.N = 4
    /\ r = 3

\* how often outcome o occurs among the samples of the trial
Occurrences(o) == Cardinality({k \in 1..Len(samples) : samples[k] = o})

\* C17: in every driver and for every shot count, the outcome handed to period
\* extraction is one the backend returned in this trial, and none of the
\* trial's samples occurs more often.
C17_MostFrequentOutcome ==
    (prog \in Drivers /\ pc = "extract")
        => /\ Occurrences(measured) >= 1
           /\ \A k \in 1..Len(samples) :
                Occurrences(samples[k]) <= Occurrences(measured)

\* C18: once all max_trials trials are rejected, the NotFound sentinel comes
\* back as an ordinary value: nothing is raised on account of the exhaustion,
\* in the driver or where its value is received.
C18_ExhaustionIsNotRaised ==
    (prog \in Drivers /\ trial = call.max_trials)
        => /\ raised = "none"
           /\ pc # "loop" => (Returned /\ ret.kind \in {"None", "NoneTuple"})

\* C19: loading a constant into an n_bits-wide register fails (InvalidInput, or
\* an exception of Python's) when the value is negative or >= 2^n_bits, and no
\* qubit outside the register's n_bits positions is flipped.
C19_EncodeRejectsOverflow ==
    (prog \in {"load_offset", "load_register"} /\ Finished)
        => /\ (arg.a < 0 \/ arg.a >= Pow2(arg.n))
                => raised \in {"InvalidInput", "ValueError", "IndexError", "CircuitError"}
           /\ \A i \in DOMAIN q : i \notin arg.n..(2 * arg.n - 1) => q[i] = 0

\* C20: the driver is at job.result() only for a job it has seen Done: not
\* before a status read found a terminal status, and not for a job whose status
\* it found to be Error or Cancelled.
C20_ResultOnlyAfterDone ==
    (prog = "run_shors_with_random_a_qrings" /\ pc = "result")
        => /\ job \in TERMINAL
           /\ job = "DONE"

\* C21: every sub-gate is appended to as many qubits as it acts on, for every
\* n_bits >= 1: in modular_add_const_mod_N the adder (2 * n_bits + 2 qubits) and
\* its controlled inverse, in the multipliers the controlled reducer gate (the
\* reducer's width and one control); so no builder ends in CircuitError.
C21_SubGateWidthsMatch ==
    /\ (prog = "modular_add_const_mod_N" /\ Finished)
          => LET adder      == to_gate(CDKMRippleCarryAdder(arg.n))
                 subtractor == control(to_gate(inverse(CDKMRippleCarryAdder(arg.n))), 1)
             IN  /\ adder.num_qubits = 2 * arg.n + 2
                 /\ Len(adder_qargs(arg.n)) = adder.num_qubits
                 /\ Len(subtractor_qargs(arg.n)) = subtractor.num_qubits
    /\ (prog \in Multipliers /\ Finished)
          => \A i \in 0..(arg.n - 1) :
                LET a_shift  == (arg.a * pow(2, i, arg.N)) % arg.N
                    add_gate == control(to_gate(
                                    modular_add_const_mod_N(a_shift, arg.N, arg.n)), 1)
                IN  a_shift # 0 => Len(add_gate_qargs(arg.n, i)) = add_gate.num_qubits
    /\ (prog \in Builders /\ Finished) => raised # "CircuitError"

\* C22: every Success result, from the classical shortcut or from a validated
\* period candidate, has factor1 * factor2 = N, as the message printed with it
\* says.
C22_FactorsMultiplyToN ==
    (prog \in Drivers /\ IsSuccess) => ret.factor1 * ret.factor2 = call.N

\* the value shors_algorithm returns, as its code decides it from what both
\* variants are fed: the bases drawn and the outcomes measured up to this point
\* (base is 0 once the last trial has been rejected)
ValueOfShorsAlgorithm ==
    IF base = 0 THEN NoneTuple
    ELSE IF gcd(base, call.N) # 1
         THEN Tuple4(gcd(base, call.N), call.N \div gcd(base, call.N), base, <<>>)
         ELSE Tuple4(gcd(pow(base, r \div 2, call.N) - 1, call.N),
                     gcd(pow(base, r \div 2, call.N) + 1, call.N), base, <<r>>)

\* C23: fed the same N, n_count, max_trials, bases and outcomes, run_shors_aer
\* with one shot and shors_algorithm return the same value on every path:
\* whichever of the two has returned, its value is the one shors_algorithm
\* returns on that input.
C23_VariantsReturnTheSame ==
    (prog \in AerDrivers /\ call.shots = 1 /\ pc = "returned")
        => ret = ValueOfShorsAlgorithm
====
